---------------------------- MODULE Spec2Model ----------------------------
(***************************************************************************)
(* Model of the refill-timer panel front end:                              *)
(*   - WebSocketClient (connect, scheduleReconnect, onMessage, disconnect) *)
(*   - App (mount/unmount effects, loadTimers, handleCreate, displayTimers)*)
(*   - TimerCard (sync effect, countdown effect, updateCountdown)          *)
(*   - formatTime                                                          *)
(* Source: src/panel/frontend/vite.config.ts, src/panel/frontend/src/api.ts*)
(***************************************************************************)
EXTENDS Integers, Sequences, FiniteSets, TLC

(***************************************************************************)
(* Bounds of the model (not program constants).                            *)
(***************************************************************************)
MaxAttempts == 7
MaxMounts == 2
MaxNow == 2500
MaxRem == 2
MaxInFlight == 1
MaxRequests == 2
MaxFmt == 125

(***************************************************************************)
(* Program constants.                                                      *)
(***************************************************************************)
InitialDelay == 1000
MaxDelay == 30000
TickGate == 250
MsPerSecond == 1000
DefaultMinutes == 5
BareLimit == 60

Null == 0

VARIABLES
    \* ---- WebSocketClient fields
    ws,               \* this.ws: Null or the index of the current socket
    handlers,         \* this.handlers: sequence of mount ids (one closure per mount)
    reconnectTimer,   \* this.reconnectTimer: Null or a timeout id
    reconnectDelay,   \* this.reconnectDelay in ms
    \* ---- browser environment
    sockets,          \* every WebSocket object created so far: its readyState
    pendingTimeouts,  \* window.setTimeout callbacks scheduled and not yet fired/cleared
    timeoutSeq,       \* last timeout id handed out by window.setTimeout
    attempts,         \* number of calls of connect() so far
    now,              \* Date.now() in ms
    \* ---- App component
    mounted,          \* App is mounted
    mountId,          \* number of mounts so far (identifies the mounted instance)
    timers,           \* useState timers: [isArray, list]
    error,            \* useState error
    formData,         \* useState formData: [name, minutes, seconds]
    loads,            \* GET /timers requests in flight (mount id of the issuer)
    creates,          \* POST /timers requests in flight (mount id of the issuer)
    nRequests,        \* number of HTTP create requests issued so far
    ops,              \* PATCH / restart / DELETE requests in flight: [op, id, delta, mount]
    \* ---- TimerCard instances, keyed by timer id
    cards,
    rendered,         \* ids of the cards in the rendered output, in order
    orphanFrames,     \* requestAnimationFrame callbacks still pending for a card
                      \* that has unmounted: [card, handle]
    \* ---- formatTime under test
    fmtIn, fmtOut,
    \* ---- history (observation only, never read by the program)
    ev,               \* the last event: [kind, ...]
    hist              \* backoff / disconnect observations

vars == <<ws, handlers, reconnectTimer, reconnectDelay, sockets, pendingTimeouts,
          timeoutSeq, attempts, now, mounted, mountId, timers, error, formData,
          loads, creates, nRequests, ops, cards, rendered, orphanFrames, fmtIn, fmtOut,
          ev, hist>>

wsVars == <<ws, handlers, reconnectTimer, reconnectDelay, sockets, pendingTimeouts,
            timeoutSeq, attempts>>
appVars == <<mounted, mountId, timers, error, formData, loads, creates, nRequests,
             ops>>
cardVars == <<cards, rendered, orphanFrames>>
fmtVars == <<fmtIn, fmtOut>>

Min(a, b) == IF a <= b THEN a ELSE b
Max(a, b) == IF a >= b THEN a ELSE b


(***************************************************************************)
(* Data.                                                                   *)
(***************************************************************************)
TimerIds == {"a", "b"}
Status == {"active", "completed", "deleted"}
Rems == (-1)..MaxRem

\* Timer (api.ts): id, remaining_seconds (rem), status (st).  name and
\* total_seconds are only printed and take no part in any decision.
MkTimer(id, rem, st) == [id |-> id, rem |-> rem, st |-> st]

\* useState<Timer[]>([]): the value may also be a non-array (whatever the
\* server sent), which Array.isArray tells apart.
ArrayOf(list) == [isArray |-> TRUE, list |-> list]
NotArray == [isArray |-> FALSE, list |-> << >>]
EmptyTimers == ArrayOf(<< >>)

\* useState<TimerCreate>({name: "", minutes: 5, seconds: 0}); a name is a
\* sequence of characters.
DefaultForm == [name |-> << >>, minutes |-> DefaultMinutes, seconds |-> 0]

NoCards == [id \in {} |-> 0]

(***************************************************************************)
(* formatTime                                                              *)
(***************************************************************************)
DigitChar == <<"0", "1", "2", "3", "4", "5", "6", "7", "8", "9">>

\* Number.prototype.toString() of a non-negative integer
RECURSIVE toString(_)
toString(n) ==
    IF n < 10 THEN DigitChar[n + 1]
    ELSE toString(n \div 10) \o DigitChar[(n % 10) + 1]

\* String.prototype.padStart(2, "0") of a digit string
padStart2(str) == IF str \in {DigitChar[i] : i \in 1..10} THEN "0" \o str ELSE str

formatTimeDropSentinel(seconds) ==
    IF seconds < 0 THEN "REFILL"
    ELSE IF seconds <= BareLimit THEN toString(seconds)
    ELSE padStart2(toString(seconds \div 60)) \o ":" \o padStart2(toString(seconds % 60))

formatTime(seconds) ==
    IF seconds <= 0 THEN "REFILL"
    ELSE IF seconds <= BareLimit THEN toString(seconds)
    ELSE padStart2(toString(seconds \div 60)) \o ":" \o padStart2(toString(seconds % 60))

(***************************************************************************)
(* TimerCard                                                               *)
(***************************************************************************)
\* The card's hooks at mount: useState(timer.remaining_seconds),
\* useRef(Date.now()), useRef(timer.remaining_seconds), then both effects run.
\* lastUpdate is the countdown effect's closure variable; animationFrameRef is
\* the ref of that name; frames is the set of the handles of the
\* requestAnimationFrame callbacks of this card that the browser holds pending.

\* requestAnimationFrame returns a handle that no pending callback has
FreshHandle(frames) ==
    CHOOSE n \in 1..(Cardinality(frames) + 1) :
        n \notin frames /\ \A m \in 1..(n - 1) : m \in frames

\* animationFrameRef.current = requestAnimationFrame(updateCountdown)
RequestFrame(c) ==
    LET h == FreshHandle(c.frames)
    IN [c EXCEPT !.frames = @ \cup {h}, !.animationFrameRef = h]

\* if (animationFrameRef.current) cancelAnimationFrame(animationFrameRef.current)
CancelFrame(c) ==
    IF c.animationFrameRef # Null
    THEN [c EXCEPT !.frames = @ \ {c.animationFrameRef}]
    ELSE c

MountCard(t, clock) ==
    LET c == [timer |-> t,
              localRemaining |-> t.rem,
              lastSyncTime |-> clock,
              lastSyncRemaining |-> t.rem,
              lastUpdate |-> IF t.st = "active" THEN clock ELSE 0,
              animationFrameRef |-> Null,
              frames |-> {}]
    IN IF t.st = "active" THEN RequestFrame(c) ELSE c

\* useEffect(..., [timer.remaining_seconds]): re-anchor when the prop changed
SyncEffectEveryRender(c, t, clock) ==
    [c EXCEPT !.lastSyncTime = clock,
              !.lastSyncRemaining = t.rem,
              !.localRemaining = t.rem]

SyncEffect(c, t, clock) ==
    IF t.rem # c.timer.rem
    THEN [c EXCEPT !.lastSyncTime = clock,
                   !.lastSyncRemaining = t.rem,
                   !.localRemaining = t.rem]
    ELSE c

\* useEffect(..., [timer.status]): the previous run's cleanup cancels the
\* pending frame, then the loop restarts only for an active timer
CountdownEffectNoCleanup(c, t, clock) ==
    IF t.st # c.timer.st
    THEN IF t.st = "active"
         THEN [RequestFrame(c) EXCEPT !.lastUpdate = clock]
         ELSE [c EXCEPT !.lastUpdate = 0]
    ELSE c

CountdownEffect(c, t, clock) ==
    IF t.st # c.timer.st
    THEN LET cleaned == IF c.timer.st = "active" THEN CancelFrame(c) ELSE c
         IN IF t.st = "active"
            THEN [RequestFrame(cleaned) EXCEPT !.lastUpdate = clock]
            ELSE [CancelFrame(cleaned) EXCEPT !.lastUpdate = 0]
    ELSE c

\* the card unmounts: the countdown effect's cleanup runs; what is left pending
UnmountCard(c) == IF c.timer.st = "active" THEN CancelFrame(c).frames ELSE c.frames

\* A re-render of a mounted card with a new timer prop
UpdateCard(c, t, clock) ==
    [CountdownEffect(SyncEffect(c, t, clock), t, clock) EXCEPT !.timer = t]

\* updateCountdown: one requestAnimationFrame callback (its own handle is no
\* longer pending when it runs); it ends by requesting the next frame
updateCountdownUp(c, clock) ==
    RequestFrame(
        IF clock - c.lastUpdate >= TickGate
        THEN LET elapsed == (clock - c.lastSyncTime) \div MsPerSecond
                 calculated == c.lastSyncRemaining + elapsed
             IN [c EXCEPT !.localRemaining = IF calculated >= 0 THEN calculated ELSE 0,
                          !.lastUpdate = clock]
        ELSE c)

updateCountdownAccumulate(c, clock) ==
    RequestFrame(
        IF clock - c.lastUpdate >= TickGate
        THEN [c EXCEPT !.localRemaining = IF @ - 1 >= 0 THEN @ - 1 ELSE 0,
                       !.lastUpdate = clock]
        ELSE c)

updateCountdown(c, clock) ==
    RequestFrame(
        IF clock - c.lastUpdate >= TickGate
        THEN LET elapsed == (clock - c.lastSyncTime) \div MsPerSecond
                 calculated == c.lastSyncRemaining - elapsed
             IN [c EXCEPT !.localRemaining = IF calculated >= 0 THEN calculated ELSE 0,
                          !.lastUpdate = clock]
        ELSE c)

\* What the card shows: formatTime(localRemaining), and the number it stands for
CardText(c) == formatTime(c.localRemaining)
DisplayedValue(c) == IF CardText(c) = "REFILL" THEN 0 ELSE c.localRemaining

\* The buttons the card renders, from its timer prop (the entry of the list
\* App holds): +1s, -1s and Delete for status active; Restart and Delete for
\* status completed.
ControlsByCountdown(c) ==
    IF c.timer.st = "active" /\ c.localRemaining > 0
    THEN {"adjust+1", "adjust-1", "delete"}
    ELSE IF c.timer.st \in {"active", "completed"} THEN {"restart", "delete"}
    ELSE {}

Controls(c) ==
    IF c.timer.st = "active" THEN {"adjust+1", "adjust-1", "delete"}
    ELSE IF c.timer.st = "completed" THEN {"restart", "delete"}
    ELSE {}

(***************************************************************************)
(* App: displayTimers and the render of the card list                      *)
(***************************************************************************)
IsDisplayed(t) == t.st = "active" \/ t.st = "completed"
IsAnyTimer(t) == TRUE

displayTimersNoFilter(ts) ==
    IF ts.isArray THEN SelectSeq(ts.list, IsAnyTimer) ELSE << >>

displayTimers(ts) ==
    IF ts.isArray THEN SelectSeq(ts.list, IsDisplayed) ELSE << >>

IdsOf(list) == [i \in 1..Len(list) |-> list[i].id]
TimerOf(list, id) == list[CHOOSE i \in 1..Len(list) : list[i].id = id]

\* displayTimers.map(timer => <TimerCard key={timer.id} .../>): a card whose
\* key stays in the list keeps its state, a new key mounts, a missing key
\* unmounts (its cleanup cancels the pending frame).
RenderCards(ts, old, clock) ==
    LET shown == displayTimers(ts)
    IN [id \in {shown[i].id : i \in 1..Len(shown)} |->
           IF id \in DOMAIN old
           THEN UpdateCard(old[id], TimerOf(shown, id), clock)
           ELSE MountCard(TimerOf(shown, id), clock)]

RenderIds(ts) == IdsOf(displayTimers(ts))

\* the callbacks left pending by the cards of old that are no longer in new
Orphans(old, new) ==
    UNION {{[card |-> id, handle |-> h] : h \in UnmountCard(old[id])} :
              id \in DOMAIN old \ DOMAIN new}

(***************************************************************************)
(* WebSocketClient.  The methods are operators on the record of the        *)
(* client's fields and of the browser objects they act on.                 *)
(***************************************************************************)
Client ==
    [ws |-> ws, reconnectTimer |-> reconnectTimer, reconnectDelay |-> reconnectDelay,
     sockets |-> sockets, pendingTimeouts |-> pendingTimeouts,
     timeoutSeq |-> timeoutSeq, attempts |-> attempts]

SetClient(c) ==
    /\ ws' = c.ws
    /\ reconnectTimer' = c.reconnectTimer
    /\ reconnectDelay' = c.reconnectDelay
    /\ sockets' = c.sockets
    /\ pendingTimeouts' = c.pendingTimeouts
    /\ timeoutSeq' = c.timeoutSeq
    /\ attempts' = c.attempts

\* window.setTimeout(callback, this.reconnectDelay): a fresh positive id
SetTimeout(c) ==
    [c EXCEPT !.timeoutSeq = @ + 1,
              !.pendingTimeouts = @ \cup {[id |-> c.timeoutSeq + 1, delay |-> c.reconnectDelay]},
              !.reconnectTimer = c.timeoutSeq + 1]

scheduleReconnectNoGuard(c) == SetTimeout(c)

scheduleReconnectCapped(c) ==
    IF c.reconnectTimer # Null \/ c.timeoutSeq >= 3 THEN c ELSE SetTimeout(c)

scheduleReconnect(c) ==
    IF c.reconnectTimer # Null THEN c ELSE SetTimeout(c)

\* connect(): new WebSocket(wsUrl) either throws (catch: scheduleReconnect)
\* or yields a socket in state CONNECTING that becomes this.ws
connect(c, throws) ==
    LET c1 == [c EXCEPT !.attempts = @ + 1]
    IN IF throws
       THEN scheduleReconnect(c1)
       ELSE [c1 EXCEPT !.sockets = Append(@, "connecting"),
                       !.ws = Len(c.sockets) + 1]

\* ws.onopen
onopen(c) == [c EXCEPT !.reconnectDelay = InitialDelay]

\* ws.onclose
onclose(c) == scheduleReconnect(c)

\* the callback given to window.setTimeout in scheduleReconnect
reconnectCallback(c, throws) ==
    connect([c EXCEPT !.reconnectTimer = Null,
                      !.reconnectDelay = Min(@ * 2, MaxDelay)], throws)

\* WebSocket.close(): CONNECTING/OPEN -> CLOSING; the close event comes later
CloseSocket(socks, s) ==
    IF socks[s] \in {"connecting", "open"} THEN [socks EXCEPT ![s] = "closing"] ELSE socks

\* disconnect()
disconnect(c) ==
    LET c1 == IF c.reconnectTimer # Null
              THEN [c EXCEPT !.pendingTimeouts = {t \in @ : t.id # c.reconnectTimer},
                             !.reconnectTimer = Null]
              ELSE c
    IN IF c1.ws # Null
       THEN [c1 EXCEPT !.sockets = CloseSocket(@, c1.ws), !.ws = Null]
       ELSE c1

(***************************************************************************)
(* Frames.  A frame is what JSON.parse makes of event.data:                *)
(*   parses  - JSON.parse returns                                          *)
(*   isNull  - it returns null (reading .type then throws)                 *)
(*   type    - data.type                                                   *)
(*   tf      - data.timers: "missing", "falsy", "object" (truthy, not an   *)
(*             array) or "array" (then list holds it)                      *)
(***************************************************************************)
MkFrame(parses, isNull, type, tf, list) ==
    [parses |-> parses, isNull |-> isNull, type |-> type, tf |-> tf, list |-> list]

StateUpdate(list) == MkFrame(TRUE, FALSE, "state_update", "array", list)

\* ws.onmessage: whether the handlers are invoked
HandlersInvokedAnyType(f) ==
    f.parses /\ ~f.isNull /\ f.tf \in {"object", "array"}

HandlersInvoked(f) ==
    f.parses /\ ~f.isNull /\ f.type = "state_update" /\ f.tf \in {"object", "array"}

\* data.timers as handed to the handlers
Payload(f) == IF f.tf = "array" THEN ArrayOf(f.list) ELSE NotArray

(***************************************************************************)
(* ApiClient.  What fetch() settles with is either a network failure or a  *)
(* response with its ok flag and a body:                                   *)
(*   "detail"   - a JSON object with a non-empty string detail             *)
(*   "nodetail" - a JSON object without a (truthy) detail                  *)
(*   "null"     - the JSON value null                                      *)
(*   "garbage"  - not JSON (an HTML error page, an empty body)             *)
(* A method's outcome is [ok, msg]: it resolves, or rejects with an error  *)
(* whose message is msg.                                                   *)
(***************************************************************************)
Bodies == {"detail", "nodetail", "null", "garbage"}
NoResponse == [kind |-> "none", ok |-> FALSE, body |-> "garbage"]
NetworkError == [kind |-> "network", ok |-> FALSE, body |-> "garbage"]
Response(ok, body) == [kind |-> "response", ok |-> ok, body |-> body]
Responses == {NetworkError} \cup {Response(ok, b) : ok \in BOOLEAN, b \in Bodies}

Resolved == [ok |-> TRUE, msg |-> ""]
Rejected(msg) == [ok |-> FALSE, msg |-> msg]

\* the messages of the errors the browser itself raises
FetchMessage == "Failed to fetch"
ParserMessage == "Unexpected token < in JSON at position 0"
NullMessage == "Cannot read properties of null (reading 'detail')"
\* the detail text of a server's error body
ServerDetail == "detail from server"

\* await response.json()
json(resp) == IF resp.body = "garbage" THEN Rejected(ParserMessage) ELSE Resolved

createTimer(resp) ==
    IF resp.kind = "network" THEN Rejected(FetchMessage)
    ELSE IF ~resp.ok
         THEN IF ~json(resp).ok THEN json(resp)
              ELSE IF resp.body = "null" THEN Rejected(NullMessage)
              ELSE IF resp.body = "detail" THEN Rejected(ServerDetail)
              ELSE Rejected("Failed to create timer")
    ELSE json(resp)

adjustTimer(resp) ==
    IF resp.kind = "network" THEN Rejected(FetchMessage)
    ELSE IF ~resp.ok THEN Rejected("Failed to adjust timer")
    ELSE Resolved

restartTimer(resp) ==
    IF resp.kind = "network" THEN Rejected(FetchMessage)
    ELSE IF ~resp.ok THEN Rejected("Failed to restart timer")
    ELSE Resolved

deleteTimer(resp) ==
    IF resp.kind = "network" THEN Rejected(FetchMessage)
    ELSE IF ~resp.ok THEN Rejected("Failed to delete timer")
    ELSE Resolved

\* the catch blocks of the handlers: err.message || "Failed to ... timer"
CatchMessage(msg, fallback) == IF msg = "" THEN fallback ELSE msg

(***************************************************************************)
(* History.                                                                *)
(***************************************************************************)
Ev(kind) ==
    [kind |-> kind, sock |-> 0, invoked |-> 0, applied |-> FALSE,
     frame |-> MkFrame(FALSE, FALSE, "", "missing", << >>), same |-> FALSE,
     rejected |-> FALSE, guarded |-> FALSE, op |-> "", card |-> "",
     resp |-> NoResponse]

NewTimeouts(old, new) == {t \in new.pendingTimeouts : t.id > old.timeoutSeq}

Observe(h, old, new, kind) ==
    LET fresh == NewTimeouts(old, new)
        sched == fresh # {}
        attempt == new.attempts > old.attempts
    IN [everOpened |-> h.everOpened \/ kind = "open",
        everDisconnected |-> h.everDisconnected \/ kind = "unmount",
        lastDelay |-> IF sched THEN (CHOOSE t \in fresh : TRUE).delay ELSE h.lastDelay,
        schedAfterOpen |-> IF sched THEN h.openSince ELSE h.schedAfterOpen,
        openSince |-> IF kind = "open" THEN TRUE
                      ELSE IF sched THEN FALSE ELSE h.openSince,
        zombieAttempt |-> IF kind = "mount" THEN FALSE
                          ELSE h.zombieAttempt \/ (attempt /\ ~mounted),
        snapshotSeen |-> IF kind \in {"mount", "unmount"} THEN FALSE
                         ELSE h.snapshotSeen,
        lastSnapshot |-> IF kind \in {"mount", "unmount"} THEN EmptyTimers
                         ELSE h.lastSnapshot]

InitHist ==
    [everOpened |-> FALSE, everDisconnected |-> FALSE, lastDelay |-> 0,
     schedAfterOpen |-> FALSE, openSince |-> FALSE, zombieAttempt |-> FALSE,
     snapshotSeen |-> FALSE, lastSnapshot |-> EmptyTimers]

(***************************************************************************)
(* Initial state: the module-level singletons constructed, App not mounted *)
(***************************************************************************)
Init ==
    /\ ws = Null
    /\ handlers = << >>
    /\ reconnectTimer = Null
    /\ reconnectDelay = InitialDelay
    /\ sockets = << >>
    /\ pendingTimeouts = {}
    /\ timeoutSeq = 0
    /\ attempts = 0
    /\ now = 0
    /\ mounted = FALSE
    /\ mountId = 0
    /\ timers = EmptyTimers
    /\ error = ""
    /\ formData = DefaultForm
    /\ loads = {}
    /\ creates = << >>
    /\ nRequests = 0
    /\ ops = << >>
    /\ cards = NoCards
    /\ rendered = << >>
    /\ orphanFrames = {}
    /\ fmtIn = 0
    /\ fmtOut = ""
    /\ ev = Ev("init")
    /\ hist = InitHist

(***************************************************************************)
(* App mount / unmount (the two useEffect(..., []) of App)                 *)
(***************************************************************************)
\* loadTimers(); wsClient.connect(); wsClient.onMessage(handler)
Mount(throws) ==
    /\ ~mounted
    /\ mountId < MaxMounts
    /\ attempts < MaxAttempts
    /\ mounted' = TRUE
    /\ mountId' = mountId + 1
    /\ loads' = loads \cup {mountId + 1}
    /\ LET c == connect(Client, throws)
       IN /\ SetClient(c)
          /\ hist' = Observe(hist, Client, c, "mount")
    /\ handlers' = Append(handlers, mountId + 1)
    /\ timers' = EmptyTimers
    /\ error' = ""
    /\ formData' = DefaultForm
    /\ cards' = NoCards
    /\ rendered' = << >>
    /\ orphanFrames' = orphanFrames
    /\ ev' = [Ev("mount") EXCEPT !.guarded = (throws /\ reconnectTimer # Null)]
    /\ UNCHANGED <<now, creates, nRequests, ops, fmtVars>>

\* the effect's cleanup: wsClient.disconnect(); the component state is dropped
\* and every card unmounts
Unmount ==
    /\ mounted
    /\ mounted' = FALSE
    /\ LET c == disconnect(Client)
       IN /\ SetClient(c)
          /\ hist' = Observe(hist, Client, c, "unmount")
    /\ timers' = EmptyTimers
    /\ error' = ""
    /\ formData' = DefaultForm
    /\ cards' = NoCards
    /\ rendered' = << >>
    /\ orphanFrames' = orphanFrames \cup Orphans(cards, NoCards)
    /\ ev' = Ev("unmount")
    /\ UNCHANGED <<handlers, now, mountId, loads, creates, nRequests, ops,
                   fmtVars>>

(***************************************************************************)
(* Socket events                                                           *)
(***************************************************************************)
SocketOpen(s) ==
    /\ s \in DOMAIN sockets
    /\ sockets[s] = "connecting"
    /\ LET c == onopen([Client EXCEPT !.sockets[s] = "open"])
       IN /\ SetClient(c)
          /\ hist' = Observe(hist, Client, c, "open")
    /\ ev' = [Ev("open") EXCEPT !.sock = s]
    /\ UNCHANGED <<handlers, now, appVars, cardVars, fmtVars>>

SocketClose(s) ==
    /\ s \in DOMAIN sockets
    /\ sockets[s] \in {"connecting", "open", "closing"}
    /\ LET c == onclose([Client EXCEPT !.sockets[s] = "closed"])
       IN /\ SetClient(c)
          /\ hist' = Observe(hist, Client, c, "close")
    /\ ev' = [Ev("close") EXCEPT !.sock = s, !.guarded = (reconnectTimer # Null)]
    /\ UNCHANGED <<handlers, now, appVars, cardVars, fmtVars>>

\* ws.onerror only logs
SocketError(s) ==
    /\ s \in DOMAIN sockets
    /\ sockets[s] \in {"connecting", "open", "closing"}
    /\ ev' = [Ev("error") EXCEPT !.sock = s]
    /\ UNCHANGED <<wsVars, handlers, now, appVars, cardVars, fmtVars, hist>>

ReconnectFire(t, throws) ==
    /\ t \in pendingTimeouts
    /\ attempts < MaxAttempts
    /\ LET c == reconnectCallback([Client EXCEPT !.pendingTimeouts = @ \ {t}], throws)
       IN /\ SetClient(c)
          /\ hist' = Observe(hist, Client, c, "fire")
    /\ ev' = Ev("fire")
    /\ UNCHANGED <<handlers, now, appVars, cardVars, fmtVars>>

\* The handler App registers with wsClient.onMessage: setTimers(updatedTimers).
\* prev is the list the panel holds, updatedTimers the frame's payload.
onStateUpdateMerge(prev, updatedTimers) ==
    IF prev.isArray /\ updatedTimers.isArray
    THEN ArrayOf(SelectSeq(prev.list,
                           LAMBDA t : \A i \in 1..Len(updatedTimers.list) :
                                          updatedTimers.list[i].id # t.id)
                 \o updatedTimers.list)
    ELSE updatedTimers

onStateUpdate(prev, updatedTimers) == updatedTimers

\* ws.onmessage on an open socket; the App handler is setTimers(updatedTimers),
\* which acts only for the mounted instance, and the list re-renders
ReceiveFrame(s, f) ==
    /\ s \in DOMAIN sockets
    /\ sockets[s] = "open"
    /\ LET invoked == IF HandlersInvoked(f) THEN Len(handlers) ELSE 0
           applied == /\ invoked > 0
                      /\ mounted
                      /\ \E i \in 1..Len(handlers) : handlers[i] = mountId
           next == onStateUpdate(timers, Payload(f))
       IN /\ timers' = IF applied THEN next ELSE timers
          /\ cards' = IF applied THEN RenderCards(next, cards, now) ELSE cards
          /\ rendered' = IF applied THEN RenderIds(next) ELSE rendered
          /\ orphanFrames' = IF applied
                             THEN orphanFrames
                                  \cup Orphans(cards, RenderCards(next, cards, now))
                             ELSE orphanFrames
          /\ ev' = [Ev("frame") EXCEPT !.sock = s, !.invoked = invoked,
                                       !.applied = applied, !.frame = f,
                                       !.same = (Payload(f) = timers)]
          /\ hist' = IF applied
                     THEN [hist EXCEPT !.snapshotSeen = TRUE, !.lastSnapshot = next]
                     ELSE hist
    /\ UNCHANGED <<wsVars, now, mounted, mountId, error, formData, loads, creates,
                   nRequests, ops, fmtVars>>

(***************************************************************************)
(* loadTimers: completion of GET /timers issued by mount m                 *)
(***************************************************************************)
LoadOk(m, data) ==
    /\ m \in loads
    /\ loads' = loads \ {m}
    /\ LET live == mounted /\ m = mountId
       IN /\ timers' = IF live THEN data ELSE timers
          /\ error' = IF live THEN "" ELSE error
          /\ cards' = IF live THEN RenderCards(data, cards, now) ELSE cards
          /\ rendered' = IF live THEN RenderIds(data) ELSE rendered
          /\ orphanFrames' = IF live
                             THEN orphanFrames
                                  \cup Orphans(cards, RenderCards(data, cards, now))
                             ELSE orphanFrames
          /\ ev' = [Ev("load") EXCEPT !.applied = live, !.same = (data = timers)]
    /\ UNCHANGED <<wsVars, now, mounted, mountId, formData, creates, nRequests, ops,
                   fmtVars, hist>>

LoadFail(m) ==
    /\ m \in loads
    /\ loads' = loads \ {m}
    /\ error' = IF mounted /\ m = mountId THEN "Failed to load timers" ELSE error
    /\ ev' = Ev("loadfail")
    /\ UNCHANGED <<wsVars, now, mounted, mountId, timers, formData, creates,
                   nRequests, ops, cardVars, fmtVars, hist>>

(***************************************************************************)
(* Clock and rendering ticks                                               *)
(***************************************************************************)
ClockSteps == {TickGate, MsPerSecond}

\* Date.now() moves forward
AdvanceClock(d) ==
    /\ now + d <= MaxNow
    /\ now' = now + d
    /\ ev' = Ev("clock")
    /\ UNCHANGED <<wsVars, appVars, cardVars, fmtVars, hist>>

\* the pending requestAnimationFrame callback of card id runs and re-requests
Tick(id) ==
    /\ id \in DOMAIN cards
    /\ \E h \in cards[id].frames :
           cards' = [cards EXCEPT
                        ![id] = updateCountdown([@ EXCEPT !.frames = @ \ {h}], now)]
    /\ ev' = [Ev("tick") EXCEPT !.card = id]
    /\ UNCHANGED <<wsVars, now, appVars, rendered, orphanFrames, fmtVars, hist>>

(***************************************************************************)
(* Creation form                                                           *)
(***************************************************************************)
Whitespace == {" ", "\t"}

\* String.prototype.trim() on a sequence of characters
RECURSIVE TrimStart(_)
TrimStart(str) ==
    IF str # << >> /\ Head(str) \in Whitespace THEN TrimStart(Tail(str)) ELSE str

RECURSIVE TrimEnd(_)
TrimEnd(str) ==
    IF str # << >> /\ str[Len(str)] \in Whitespace
    THEN TrimEnd(SubSeq(str, 1, Len(str) - 1))
    ELSE str

trim(str) == TrimEnd(TrimStart(str))

Names == {<< >>, <<" ">>, <<"\t", " ">>, <<"a">>, <<" ", "a">>}
FormNums == {0, 1}

\* onChange of the three inputs (parseInt(value) || 0 is an integer)
EditName(n) ==
    /\ mounted
    /\ formData.name # n
    /\ formData' = [formData EXCEPT !.name = n]
    /\ ev' = Ev("editName")
    /\ UNCHANGED <<wsVars, now, mounted, mountId, timers, error, loads, creates,
                   nRequests, ops, cardVars, fmtVars, hist>>

EditMinutes(m) ==
    /\ mounted
    /\ formData.minutes # m
    /\ formData' = [formData EXCEPT !.minutes = m]
    /\ ev' = Ev("editMinutes")
    /\ UNCHANGED <<wsVars, now, mounted, mountId, timers, error, loads, creates,
                   nRequests, ops, cardVars, fmtVars, hist>>

EditSeconds(sec) ==
    /\ mounted
    /\ formData.seconds # sec
    /\ formData' = [formData EXCEPT !.seconds = sec]
    /\ ev' = Ev("editSeconds")
    /\ UNCHANGED <<wsVars, now, mounted, mountId, timers, error, loads, creates,
                   nRequests, ops, cardVars, fmtVars, hist>>

\* handleCreate: which validation rejects the draft ("" when none does)
ValidateNameOnly(fd) ==
    IF trim(fd.name) = << >> THEN "Please enter timer name" ELSE ""

Validate(fd) ==
    IF trim(fd.name) = << >> THEN "Please enter timer name"
    ELSE IF fd.minutes = 0 /\ fd.seconds = 0 THEN "Time cannot be 0"
    ELSE ""

\* handleCreate up to the await of api.createTimer(formData)
SubmitCreate ==
    /\ mounted
    /\ LET msg == Validate(formData)
       IN IF msg # ""
          THEN /\ error' = msg
               /\ ev' = [Ev("submit") EXCEPT !.rejected = TRUE]
               /\ UNCHANGED <<creates, nRequests>>
          ELSE /\ nRequests < MaxRequests
               /\ creates' = Append(creates, mountId)
               /\ nRequests' = nRequests + 1
               /\ ev' = Ev("submit")
               /\ UNCHANGED error
    /\ UNCHANGED <<wsVars, now, mounted, mountId, timers, formData, loads, ops,
                   cardVars, fmtVars, hist>>

\* api.createTimer settles: "ok", or it throws an Error with message msg
\* (error.detail, the generic text, or the message of a rejected fetch/json)
CreateMessages == {"detail from server", "Failed to create timer", "Failed to fetch"}

\* handleCreate after the await: the request of creates[i] has settled
CreateEffect(i, ok, msg) ==
    /\ i \in 1..Len(creates)
    /\ creates' = SubSeq(creates, 1, i - 1) \o SubSeq(creates, i + 1, Len(creates))
    /\ LET live == mounted /\ creates[i] = mountId
       IN /\ formData' = IF live /\ ok THEN DefaultForm ELSE formData
          /\ error' = IF ~live THEN error ELSE IF ok THEN "" ELSE msg
    /\ UNCHANGED <<wsVars, now, mounted, mountId, timers, loads, nRequests, ops,
                   cardVars, fmtVars, hist>>

CreateDone(i, ok, msg) ==
    /\ CreateEffect(i, ok, msg)
    /\ ev' = [Ev("created") EXCEPT !.applied = ok]

\* the same, with the outcome computed from what fetch() settled with
CreateSettle(i, resp) ==
    /\ i \in 1..Len(creates)
    /\ LET out == createTimer(resp)
       IN /\ CreateEffect(i, out.ok, CatchMessage(out.msg, "Failed to create timer"))
          /\ ev' = [Ev("settled") EXCEPT !.applied = (mounted /\ creates[i] = mountId),
                                         !.op = "create", !.resp = resp]

(***************************************************************************)
(* handleAdjust, handleRestart, handleDelete: the card's buttons           *)
(***************************************************************************)
Deltas == {1, -1}

MkOp(op, id, delta) == [op |-> op, id |-> id, delta |-> delta, mount |-> mountId]

\* a click on +1s / -1s, up to the await of api.adjustTimer(id, seconds)
handleAdjust(id, delta) ==
    /\ mounted
    /\ id \in DOMAIN cards
    /\ (IF delta = 1 THEN "adjust+1" ELSE "adjust-1") \in Controls(cards[id])
    /\ Len(ops) < MaxInFlight
    /\ ops' = Append(ops, MkOp("adjust", id, delta))
    /\ ev' = [Ev("click") EXCEPT !.op = "adjust", !.card = id]
    /\ UNCHANGED <<wsVars, now, mounted, mountId, timers, error, formData, loads,
                   creates, nRequests, cardVars, fmtVars, hist>>

\* a click on Restart, up to the await of api.restartTimer(id)
handleRestart(id) ==
    /\ mounted
    /\ id \in DOMAIN cards
    /\ "restart" \in Controls(cards[id])
    /\ Len(ops) < MaxInFlight
    /\ ops' = Append(ops, MkOp("restart", id, 0))
    /\ ev' = [Ev("click") EXCEPT !.op = "restart", !.card = id]
    /\ UNCHANGED <<wsVars, now, mounted, mountId, timers, error, formData, loads,
                   creates, nRequests, cardVars, fmtVars, hist>>

\* a click on Delete; confirmed is what confirm(...) returned
handleDeleteNoConfirm(id, confirmed) ==
    /\ mounted
    /\ id \in DOMAIN cards
    /\ "delete" \in Controls(cards[id])
    /\ Len(ops) < MaxInFlight
    /\ ops' = Append(ops, MkOp("delete", id, 0))
    /\ ev' = [Ev("click") EXCEPT !.op = "delete", !.card = id,
                                 !.rejected = ~confirmed]
    /\ UNCHANGED <<wsVars, now, mounted, mountId, timers, error, formData, loads,
                   creates, nRequests, cardVars, fmtVars, hist>>

handleDeleteOptimistic(id, confirmed) ==
    /\ mounted
    /\ id \in DOMAIN cards
    /\ "delete" \in Controls(cards[id])
    /\ IF confirmed
       THEN /\ Len(ops) < MaxInFlight
            /\ ops' = Append(ops, MkOp("delete", id, 0))
            /\ timers' = ArrayOf(SelectSeq(timers.list, LAMBDA t : t.id # id))
       ELSE UNCHANGED <<ops, timers>>
    /\ ev' = [Ev("click") EXCEPT !.op = "delete", !.card = id,
                                 !.rejected = ~confirmed]
    /\ UNCHANGED <<wsVars, now, mounted, mountId, error, formData, loads,
                   creates, nRequests, cardVars, fmtVars, hist>>

handleDelete(id, confirmed) ==
    /\ mounted
    /\ id \in DOMAIN cards
    /\ "delete" \in Controls(cards[id])
    /\ IF confirmed
       THEN /\ Len(ops) < MaxInFlight
            /\ ops' = Append(ops, MkOp("delete", id, 0))
       ELSE UNCHANGED ops
    /\ ev' = [Ev("click") EXCEPT !.op = "delete", !.card = id,
                                 !.rejected = ~confirmed]
    /\ UNCHANGED <<wsVars, now, mounted, mountId, timers, error, formData, loads,
                   creates, nRequests, cardVars, fmtVars, hist>>

\* the outcome of the ApiClient method of request o
Outcome(o, resp) ==
    IF o.op = "adjust" THEN adjustTimer(resp)
    ELSE IF o.op = "restart" THEN restartTimer(resp)
    ELSE deleteTimer(resp)

Fallback(op) ==
    IF op = "adjust" THEN "Failed to adjust timer"
    ELSE IF op = "restart" THEN "Failed to restart timer"
    ELSE "Failed to delete timer"

\* the handler after its await: the request ops[i] has settled
OpSettle(i, resp) ==
    /\ i \in 1..Len(ops)
    /\ ops' = SubSeq(ops, 1, i - 1) \o SubSeq(ops, i + 1, Len(ops))
    /\ LET o == ops[i]
           out == Outcome(o, resp)
           live == mounted /\ o.mount = mountId
       IN /\ error' = IF ~live THEN error
                      ELSE IF out.ok THEN ""
                      ELSE CatchMessage(out.msg, Fallback(o.op))
          /\ ev' = [Ev("settled") EXCEPT !.applied = live, !.op = o.op,
                                         !.card = o.id, !.resp = resp]
    /\ UNCHANGED <<wsVars, now, mounted, mountId, timers, formData, loads, creates,
                   nRequests, cardVars, fmtVars, hist>>

(***************************************************************************)
(* formatTime applied to an input                                          *)
(***************************************************************************)
FmtInputs == (-2)..MaxFmt

PickInput(n) ==
    /\ fmtIn # n
    /\ fmtIn' = n
    /\ fmtOut' = ""
    /\ UNCHANGED <<wsVars, now, appVars, cardVars, ev, hist>>

Format ==
    /\ fmtOut = ""
    /\ fmtOut' = formatTime(fmtIn)
    /\ UNCHANGED <<wsVars, now, appVars, cardVars, fmtIn, ev, hist>>

(***************************************************************************)
(* Snapshots and frames the server may send                                *)
(***************************************************************************)
\* transport: every shape of frame, with two timers in both orders
TransportLists ==
    {<< >>,
     <<MkTimer("a", 1, "active")>>,
     <<MkTimer("a", 1, "active"), MkTimer("b", 0, "deleted")>>,
     <<MkTimer("b", 2, "completed"), MkTimer("a", 1, "active")>>,
     <<MkTimer("a", 2, "deleted"), MkTimer("b", 0, "completed")>>}

TransportFrames ==
    {MkFrame(FALSE, FALSE, "", "missing", << >>),
     MkFrame(TRUE, TRUE, "", "missing", << >>),
     MkFrame(TRUE, FALSE, "ping", "array", <<MkTimer("b", 1, "active")>>),
     MkFrame(TRUE, FALSE, "", "array", <<MkTimer("b", 1, "active")>>),
     MkFrame(TRUE, FALSE, "state_update", "missing", << >>),
     MkFrame(TRUE, FALSE, "state_update", "falsy", << >>),
     MkFrame(TRUE, FALSE, "state_update", "object", << >>)}
    \cup {StateUpdate(l) : l \in TransportLists}

\* countdown: one timer with every remaining value and status, and the
\* two-timer lists
CountdownLists ==
    TransportLists \cup {<<MkTimer("a", r, st)>> : r \in Rems, st \in Status}

CountdownFrames == {StateUpdate(l) : l \in CountdownLists}

\* requests: a list with an active and a completed card, and its changes
OpsLists ==
    {<< >>,
     <<MkTimer("a", 1, "active"), MkTimer("b", 0, "completed")>>,
     <<MkTimer("a", 2, "active"), MkTimer("b", 0, "deleted")>>}

OpsFrames == {StateUpdate(l) : l \in OpsLists}

LoadData == {ArrayOf(<< >>), ArrayOf(<<MkTimer("a", MaxRem, "active")>>), NotArray}

(***************************************************************************)
(* Specifications                                                          *)
(***************************************************************************)
\* the transport client under mount/unmount, socket events and timer firings
\* (wsUrl is built from window.location, so new WebSocket(wsUrl) does not throw)
Next ==
    \/ Mount(FALSE)
    \/ Unmount
    \/ \E s \in DOMAIN sockets : SocketOpen(s)
    \/ \E s \in DOMAIN sockets : SocketClose(s)
    \/ \E s \in DOMAIN sockets : SocketError(s)
    \/ \E t \in pendingTimeouts : ReconnectFire(t, FALSE)

Spec == Init /\ [][Next]_vars

\* one mounted panel: its connection chain and the frames it receives,
\* including the constructor failure that connect() catches
NextFrames ==
    \/ \E throws \in BOOLEAN : Mount(throws)
    \/ \E s \in DOMAIN sockets : SocketOpen(s)
    \/ \E s \in DOMAIN sockets : SocketClose(s)
    \/ \E t \in pendingTimeouts, throws \in BOOLEAN : ReconnectFire(t, throws)
    \/ \E s \in DOMAIN sockets, f \in TransportFrames : ReceiveFrame(s, f)

SpecFrames == Init /\ [][NextFrames]_vars

\* one mount that never disconnects, where every scheduled reconnect timer
\* eventually fires (window.setTimeout runs its callback after the delay)
NextLive ==
    \/ \E throws \in BOOLEAN : Mount(throws)
    \/ \E s \in DOMAIN sockets : SocketOpen(s)
    \/ \E s \in DOMAIN sockets : SocketClose(s)
    \/ \E t \in pendingTimeouts, throws \in BOOLEAN : ReconnectFire(t, throws)

TimersFire ==
    WF_vars(\E t \in pendingTimeouts, throws \in BOOLEAN : ReconnectFire(t, throws))

SpecLive == Init /\ [][NextLive]_vars /\ TimersFire

\* the countdown of the cards under snapshots, the initial load, clock and ticks
NextCountdown ==
    \/ Mount(FALSE)
    \/ \E s \in DOMAIN sockets : SocketOpen(s)
    \/ \E s \in DOMAIN sockets, f \in CountdownFrames : ReceiveFrame(s, f)
    \/ \E m \in loads, data \in LoadData : LoadOk(m, data)
    \/ \E m \in loads : LoadFail(m)
    \/ \E d \in ClockSteps : AdvanceClock(d)
    \/ \E id \in DOMAIN cards : Tick(id)

SpecCountdown == Init /\ [][NextCountdown]_vars

\* the creation form
NextForm ==
    \/ Mount(FALSE)
    \/ Unmount
    \/ \E n \in Names : EditName(n)
    \/ \E m \in FormNums : EditMinutes(m)
    \/ \E sec \in FormNums : EditSeconds(sec)
    \/ SubmitCreate
    \/ \E i \in 1..Len(creates), ok \in BOOLEAN, msg \in CreateMessages :
           CreateDone(i, ok, msg)

SpecForm == Init /\ [][NextForm]_vars

\* the requests of the form and of the cards' buttons, and what they settle with
NextOps ==
    \/ Mount(FALSE)
    \/ \E s \in DOMAIN sockets : SocketOpen(s)
    \/ \E s \in DOMAIN sockets, f \in OpsFrames : ReceiveFrame(s, f)
    \/ EditName(<<"a">>)
    \/ SubmitCreate
    \/ \E i \in 1..Len(creates), resp \in Responses : CreateSettle(i, resp)
    \/ \E id \in DOMAIN cards, delta \in Deltas : handleAdjust(id, delta)
    \/ \E id \in DOMAIN cards : handleRestart(id)
    \/ \E id \in DOMAIN cards, confirmed \in BOOLEAN : handleDelete(id, confirmed)
    \/ \E i \in 1..Len(ops), resp \in Responses : OpSettle(i, resp)

SpecOps == Init /\ [][NextOps]_vars

\* formatTime over its inputs
NextFormat ==
    \/ \E n \in FmtInputs : PickInput(n)
    \/ Format

SpecFormat == Init /\ [][NextFormat]_vars

(***************************************************************************)
(* Properties                                                              *)
(***************************************************************************)
Pow2(n) == IF n = 0 THEN 1 ELSE IF n = 1 THEN 2 ELSE IF n = 2 THEN 4
           ELSE IF n = 3 THEN 8 ELSE IF n = 4 THEN 16 ELSE 32

\* the k-th delay of the claimed sequence 1s, 2s, 4s, 8s, 16s, 30s, 30s, ...
ClaimedDelay(k) == IF k >= 6 THEN 30000 ELSE 1000 * Pow2(k - 1)

\* the application has called disconnect() and not connect() since
Disconnected == ~mounted /\ mountId > 0

\* C1 - Reconnect backoff: while no connection has ever opened (and the
\* application has not disconnected), the k-th reconnect timer is scheduled
\* with the k-th delay of 1s, 2s, 4s, 8s, 16s, 30s, 30s, ...; and a timer
\* scheduled next after a connection opened is scheduled with 1s.
C1_BackoffSequence ==
    /\ (timeoutSeq >= 1 /\ ~hist.everOpened /\ ~hist.everDisconnected)
          => hist.lastDelay = ClaimedDelay(timeoutSeq)
    /\ (timeoutSeq >= 1 /\ hist.schedAfterOpen) => hist.lastDelay = 1000

\* C2 - disconnect() cancels any pending reconnect: after disconnect() and
\* before the application's next connect(), no reconnect timer is pending and
\* no connection attempt is made.
C2_DisconnectCancels ==
    Disconnected =>
        /\ reconnectTimer = Null
        /\ pendingTimeouts = {}
        /\ ~hist.zombieAttempt

\* C3 - At most one reconnect timer is scheduled and not yet fired, in every
\* reachable state of the transport client.
C3_OneReconnectTimer == Cardinality(pendingTimeouts) <= 1

\* a close event (or failed connect) found a timer pending and scheduled none
C3_Witness ==
    /\ ev.kind = "close"
    /\ ev.guarded
    /\ Cardinality(pendingTimeouts) = 1

\* the timers of the frame that the last event delivered
FrameTimers == {ev.frame.list[i] : i \in 1..Len(ev.frame.list)}

\* C4 - Resync on every snapshot: right after a snapshot is applied, every
\* active timer of it has its card's anchor overwritten with
\* (now, remaining_seconds) and shows max(0, remaining_seconds).
C4_ResyncEverySnapshot ==
    (ev.kind = "frame" /\ ev.applied) =>
        \A t \in FrameTimers :
            t.st = "active" =>
                /\ t.id \in DOMAIN cards
                /\ cards[t.id].lastSyncTime = now
                /\ cards[t.id].lastSyncRemaining = t.rem
                /\ DisplayedValue(cards[t.id]) = Max(0, t.rem)

\* C5 - Monotonicity: across a rendering tick or a clock step (no snapshot,
\* no load), no active card's displayed value increases.
C5_Monotonic ==
    [][ev'.kind \in {"tick", "clock"} =>
          /\ DOMAIN cards' = DOMAIN cards
          /\ \A id \in DOMAIN cards :
                 cards[id].timer.st = "active" =>
                     DisplayedValue(cards'[id]) <= DisplayedValue(cards[id])]_vars

\* a tick has moved an active card's display below its anchor value
C5_Witness ==
    /\ ev.kind = "tick"
    /\ \E id \in DOMAIN cards :
           /\ cards[id].timer.st = "active"
           /\ cards[id].lastSyncRemaining = MaxRem
           /\ cards[id].localRemaining = MaxRem - 1

Numeral(n) ==
    CASE n = 0 -> "0" [] n = 1 -> "1" [] n = 2 -> "2" [] n = 3 -> "3" [] n = 4 -> "4"
      [] n = 5 -> "5" [] n = 6 -> "6" [] n = 7 -> "7" [] n = 8 -> "8" [] n = 9 -> "9"
      [] OTHER -> ToString(n)

TwoDigits(n) == IF n < 10 THEN "0" \o Numeral(n) ELSE ToString(n)

\* C7 - Formatting: formatTime(s) is "REFILL" for s <= 0, the bare decimal
\* integer for 1 <= s <= 60, and floor(s/60) and s mod 60 zero-padded to two
\* digits and joined by ":" for s > 60; it is never "0" nor a negative number.
C7_Formatting ==
    /\ fmtOut # "" =>
          /\ fmtIn <= 0 => fmtOut = "REFILL"
          /\ (1 <= fmtIn /\ fmtIn <= 60) => fmtOut = ToString(fmtIn)
          /\ fmtIn > 60 =>
                 fmtOut = TwoDigits(fmtIn \div 60) \o ":" \o TwoDigits(fmtIn % 60)
          /\ fmtOut # "0"
          /\ fmtOut \notin {ToString(n) : n \in (-2)..(-1)}
          /\ (fmtIn = 0 => fmtOut = "REFILL")
          /\ (fmtIn = 45 => fmtOut = "45")
          /\ (fmtIn = 60 => fmtOut = "60")
          /\ (fmtIn = 61 => fmtOut = "01:01")
          /\ (fmtIn = 125 => fmtOut = "02:05")
    /\ formatTime(600) = "10:00"
    /\ formatTime(3599) = "59:59"
    /\ formatTime(6005) = "100:05"

C7_Witness == fmtIn = 125 /\ fmtOut = "02:05"

\* the ids of the timers with status active or completed, in list order
RECURSIVE VisibleIds(_)
VisibleIds(list) ==
    IF list = << >> THEN << >>
    ELSE IF Head(list).st \in {"active", "completed"}
         THEN <<Head(list).id>> \o VisibleIds(Tail(list))
         ELSE VisibleIds(Tail(list))

\* C8 - The rendered cards are exactly the timers of the local list whose
\* status is active or completed, in list order; no card shows a deleted timer.
C8_NoDeletedRendered ==
    /\ rendered = (IF timers.isArray THEN VisibleIds(timers.list) ELSE << >>)
    /\ DOMAIN cards = {rendered[i] : i \in 1..Len(rendered)}
    /\ \A id \in DOMAIN cards : cards[id].timer.st # "deleted"
    /\ \A i \in 1..Len(timers.list) :
           timers.list[i].st = "deleted" => timers.list[i].id \notin DOMAIN cards

\* the local list holds a deleted timer next to a rendered one
C8_Witness ==
    /\ Len(timers.list) = 2
    /\ \E i \in 1..2 : timers.list[i].st = "deleted"
    /\ Len(rendered) = 1

\* a name that is empty or consists of whitespace only
Blank(name) == \A i \in 1..Len(name) : name[i] \in {" ", "\t"}

\* C9 - Create validation: a submit with a blank name, or with minutes = 0 and
\* seconds = 0, issues no request, sets an error message and leaves the draft
\* unchanged; a request is issued only when both checks pass.
C9_CreateValidation ==
    [][ev'.kind = "submit" =>
          LET bad == Blank(formData.name)
                     \/ (formData.minutes = 0 /\ formData.seconds = 0)
          IN /\ bad => /\ nRequests' = nRequests
                       /\ creates' = creates
                       /\ error' # ""
                       /\ formData' = formData
             /\ (nRequests' # nRequests \/ creates' # creates) => ~bad]_vars

\* a draft with a good name and a zero duration was rejected
C9_Witness ==
    /\ ev.kind = "submit"
    /\ ev.rejected
    /\ ~Blank(formData.name)
    /\ formData.minutes = 0 /\ formData.seconds = 0
    /\ error = "Time cannot be 0"

\* C10 - Frame filtering: the handlers are invoked only for a frame that parses
\* and carries type "state_update" with a timers field; any other frame invokes
\* no handler, schedules no reconnect, leaves the backoff delay, the local list
\* and the cards unchanged and leaves the connection open.
C10_FrameFiltering ==
    [][ev'.kind = "frame" =>
          LET f == ev'.frame
              shaped == /\ f.parses
                        /\ ~f.isNull
                        /\ f.type = "state_update"
                        /\ f.tf # "missing"
          IN /\ ev'.invoked > 0 => shaped
             /\ ~shaped =>
                    /\ ev'.invoked = 0
                    /\ ~ev'.applied
                    /\ UNCHANGED <<pendingTimeouts, reconnectTimer, timeoutSeq,
                                   reconnectDelay, sockets, ws, timers, cards,
                                   rendered>>
                    /\ sockets'[ev'.sock] = "open"]_vars

\* an unparseable frame was dropped while a state was held and the socket open
C10_Witness ==
    /\ ev.kind = "frame"
    /\ ~ev.frame.parses
    /\ ev.invoked = 0
    /\ sockets[ev.sock] = "open"
    /\ timers.list # << >>

\* C11 - Snapshot ordering: right after the application's handler has processed
\* a state-update frame S, the local list is exactly S.timers, whatever it held
\* before; so after S1 then S2 it is S2.timers.
C11_SnapshotOverwrites ==
    (ev.kind = "frame" /\ ev.applied) =>
        /\ timers.list = ev.frame.list
        /\ timers.isArray = (ev.frame.tf = "array")

\* a snapshot with no timers replaced a list that held some
C11_Witness ==
    /\ ev.kind = "frame"
    /\ ev.applied
    /\ ~ev.same
    /\ ev.frame.tf = "array"
    /\ timers = EmptyTimers

\* C12 - No local mutation by requests: issuing a create, adjust, restart or
\* delete request, and its completion with success or with failure, leave the
\* local timer list (and the cards rendered from it) unchanged.
C12_RequestsLeaveList ==
    [][ev'.kind \in {"submit", "click", "settled"} =>
          /\ timers' = timers
          /\ cards' = cards
          /\ rendered' = rendered]_vars

\* a DELETE succeeded and the deleted timer's card is still shown
C12_Witness ==
    /\ ev.kind = "settled"
    /\ ev.op = "delete"
    /\ ev.applied
    /\ ev.resp.kind = "response" /\ ev.resp.ok
    /\ ev.card \in DOMAIN cards
    /\ \E i \in 1..Len(timers.list) : timers.list[i].id = ev.card

\* the DELETE requests in flight
DeletesOf(q) == SelectSeq(q, LAMBDA o : o.op = "delete")

\* C13 - Delete requires confirmation: a DELETE request is issued only by a
\* click on Delete whose prompt the user confirmed, and for that card's timer;
\* when the user declines, no request is issued and the error message and the
\* timer list are unchanged.
C13_DeleteConfirmed ==
    [][/\ (ev'.kind = "click" /\ ev'.op = "delete" /\ ev'.rejected) =>
              /\ ops' = ops
              /\ error' = error
              /\ timers' = timers
       /\ Len(DeletesOf(ops')) > Len(DeletesOf(ops)) =>
              /\ ev'.kind = "click" /\ ev'.op = "delete" /\ ~ev'.rejected
              /\ ops' = Append(ops, [op |-> "delete", id |-> ev'.card,
                                     delta |-> 0, mount |-> mountId])]_vars

\* the user declined the prompt while an error message was shown
C13_Witness ==
    /\ ev.kind = "click"
    /\ ev.op = "delete"
    /\ ev.rejected
    /\ error # ""
    /\ ops = << >>
    /\ ev.card \in DOMAIN cards

\* the generic message of an operation
GenericMessage(op) ==
    IF op = "create" THEN "Failed to create timer"
    ELSE IF op = "adjust" THEN "Failed to adjust timer"
    ELSE IF op = "restart" THEN "Failed to restart timer"
    ELSE "Failed to delete timer"

\* C14 - Failure messages: after a create, adjust, restart or delete request
\* was answered with a non-2xx response, the error shown is the server's
\* message when the body is a structured error body carrying one, and the
\* operation's generic message in every other case (a body without a message,
\* a body that cannot be parsed).
C14_FailureMessages ==
    (ev.kind = "settled" /\ ev.applied
        /\ ev.resp.kind = "response" /\ ~ev.resp.ok) =>
        error = IF ev.resp.body = "detail" THEN ServerDetail
                ELSE GenericMessage(ev.op)

\* the last event was an unexpected close, or a connection attempt that failed
\* at once (the constructor threw), while the application is connected
ConnectionLost ==
    /\ mounted
    /\ \/ ev.kind = "close"
       \/ (ev.kind \in {"mount", "fire"} /\ pendingTimeouts # {})

\* C15 - Reconnection continues: while disconnect() has not been called and
\* scheduled timers eventually fire, every unexpected close and every failed
\* connection attempt is eventually followed by a new connection attempt,
\* whatever the number of attempts made before (up to the bound of the model).
C15_ReconnectsForever ==
    \A n \in 0..(MaxAttempts - 1) :
        (ConnectionLost /\ attempts = n) ~> (attempts > n)

\* a reconnect attempt that follows at least three earlier attempts
C15_Witness ==
    /\ ev.kind = "fire"
    /\ attempts >= 4
    /\ mounted
    /\ ~hist.everDisconnected

\* the value the anchor of card c stands for at time clock
AnchorValue(c, clock) ==
    Max(0, c.lastSyncRemaining - ((clock - c.lastSyncTime) \div 1000))

\* the claim's example: anchored at 125 s, the card shows 95 after 30 s; a
\* snapshot of 10 s that arrives then makes it show 10, not 65
AnchorExample ==
    LET c0 == MountCard(MkTimer("a", 125, "active"), 0)
        c1 == updateCountdown(c0, 30000)
        c2 == UpdateCard(c1, MkTimer("a", 10, "active"), 30000)
        c3 == updateCountdown(c2, 30000 + 250)
    IN /\ c1.localRemaining = 95
       /\ c2.localRemaining = 10
       /\ c3.localRemaining = 10

\* C16 - Anchor-derived countdown: a rendering tick never modifies a card's
\* anchor (syncedAt, syncedRemaining), and whenever it updates a card the value
\* it shows is max(0, syncedRemaining - floor((now - syncedAt) / 1000)).
C16_AnchorDerived ==
    [][ev'.kind = "tick" =>
          /\ AnchorExample
          /\ DOMAIN cards' = DOMAIN cards
          /\ \A id \in DOMAIN cards :
                 /\ cards'[id].lastSyncTime = cards[id].lastSyncTime
                 /\ cards'[id].lastSyncRemaining = cards[id].lastSyncRemaining
                 /\ cards'[id] # cards[id] =>
                        cards'[id].localRemaining = AnchorValue(cards[id], now)]_vars

\* a tick counted down from an anchor that a snapshot had set after the start
C16_Witness ==
    /\ ev.kind = "tick"
    /\ \E id \in DOMAIN cards :
           /\ cards[id].timer.st = "active"
           /\ cards[id].lastSyncTime > 0
           /\ cards[id].lastSyncRemaining >= 1
           /\ cards[id].localRemaining = cards[id].lastSyncRemaining - 1
           /\ cards[id].lastUpdate = now

LiveSockets == {s \in DOMAIN sockets : sockets[s] \in {"connecting", "open"}}

\* C18 - Single connection: under any sequence of connect(), disconnect(), close
\* events and timer firings, at most one socket is open or connecting at any
\* time (so a frame of the server reaches the handlers over one socket only).
C18_SingleConnection == Cardinality(LiveSockets) <= 1

\* C19 - Broadcast is the sole source of truth: once the mounted panel has
\* applied a snapshot, its local list equals the most recently applied snapshot
\* in every later state; in particular the completion of the initial
\* GET /timers load does not replace a snapshot-derived list.
C19_SnapshotIsTruth ==
    (mounted /\ hist.snapshotSeen) => timers = hist.lastSnapshot

\* the status of timer id in the list the panel holds
StatusInList(id) ==
    LET i == CHOOSE k \in 1..Len(timers.list) : timers.list[k].id = id
    IN timers.list[i].st

\* C20 - Controls follow server status only: every card exposes adjust (+1s,
\* -1s) and delete when its timer's status in the current local list is active,
\* and restart and delete when it is completed, whatever the card's local
\* countdown shows; a card showing 0 with status active still exposes adjust
\* and not restart.
C20_ControlsByStatus ==
    \A id \in DOMAIN cards :
        /\ \E k \in 1..Len(timers.list) : timers.list[k].id = id
        /\ StatusInList(id) = "active" =>
               Controls(cards[id]) = {"adjust+1", "adjust-1", "delete"}
        /\ StatusInList(id) = "completed" =>
               Controls(cards[id]) = {"restart", "delete"}
        /\ StatusInList(id) \in {"active", "completed"}

\* an active card has counted down to zero and still offers adjust
C20_Witness ==
    \E id \in DOMAIN cards :
        /\ StatusInList(id) = "active"
        /\ cards[id].lastSyncRemaining > 0
        /\ cards[id].localRemaining = 0
        /\ CardText(cards[id]) = "REFILL"
        /\ "adjust+1" \in Controls(cards[id])
        /\ "restart" \notin Controls(cards[id])

=============================================================================
